---- MODULE Spec2Model ----
(***************************************************************************)
(* Model of src/server/routes/mcpServers.ts: the MCP server configuration  *)
(* routes.  The overlay file .claude/mcp-servers.json is the only shared   *)
(* state; every request handler is a load -> compute -> save sequence over *)
(* it, with an interleaving point at every await on the file.              *)
(***************************************************************************)
EXTENDS Integers, Sequences, FiniteSets, Bags, TLC

VARIABLES file, req

vars == <<file, req>>

(***************************************************************************)
(* JavaScript values.  Every value is a record tagged by its type, so that *)
(* truthiness, ?? and property lookup are computed as the runtime does.    *)
(***************************************************************************)
Undefined == [t |-> "undefined"]

Str(s) == [t |-> "string", s |-> s]

Bool(b) == [t |-> "boolean", b |-> b]

\* An opaque JSON object or array carried verbatim (headers, env, args).
Json(j) == [t |-> "json", j |-> j]

\* A stored server configuration object.
Cfg(c) == [t |-> "config", c |-> c]

\* A member inherited from Object.prototype (a function, or for __proto__
\* the prototype object itself): defined, truthy, and not an own property.
ProtoMember == [t |-> "proto"]

\* The names every ordinary object inherits from Object.prototype.
ObjectPrototypeKeys ==
  { "constructor", "__proto__", "hasOwnProperty", "isPrototypeOf",
    "propertyIsEnumerable", "toLocaleString", "toString", "valueOf",
    "__defineGetter__", "__defineSetter__", "__lookupGetter__",
    "__lookupSetter__" }

\* ToBoolean: undefined and "" and false are falsy, every object is truthy.
Truthy(x) ==
  CASE x.t = "undefined" -> FALSE
    [] x.t = "string"    -> x.s # ""
    [] x.t = "boolean"   -> x.b
    [] OTHER             -> TRUE

\* a ?? b
Nullish(x, d) == IF x.t = "undefined" THEN d ELSE x

\* !x
Not(x) == Bool(~Truthy(x))

\* String(x), as applied to a property key and to the argument of RegExp.test.
JsToString(x) ==
  CASE x.t = "string"    -> x.s
    [] x.t = "boolean"   -> IF x.b THEN "true" ELSE "false"
    [] x.t = "undefined" -> "undefined"
    [] OTHER             -> "[object Object]"

(***************************************************************************)
(* Strings: characters are read with SubSeq.                               *)
(***************************************************************************)
CharAt(s, i) == SubSeq(s, i, i)

Digits == {"0", "1", "2", "3", "4", "5", "6", "7", "8", "9"}

LowerLetters ==
  { "a", "b", "c", "d", "e", "f", "g", "h", "i", "j", "k", "l", "m",
    "n", "o", "p", "q", "r", "s", "t", "u", "v", "w", "x", "y", "z" }

\* The test with its character class dropped.
IdFormatOkAnyChar(s) == Len(s) >= 1

\* /^[a-z0-9-]+$/.test(s)
IdFormatOk(s) ==
  /\ Len(s) >= 1
  /\ \A i \in 1..Len(s) : CharAt(s, i) \in LowerLetters \cup Digits \cup {"-"}

\* Decimal digit strings of equal length compare as numbers character by
\* character.
RECURSIVE DigitsLess(_, _)
DigitsLess(a, b) ==
  IF Len(a) = 0 THEN FALSE
  ELSE LET x == CharAt(a, 1)
           y == CharAt(b, 1)
           Val(c) == CHOOSE n \in 0..9 : CharAt("0123456789", n + 1) = c
       IN IF x = y THEN DigitsLess(SubSeq(a, 2, Len(a)), SubSeq(b, 2, Len(b)))
          ELSE Val(x) < Val(y)

NumLess(a, b) == Len(a) < Len(b) \/ (Len(a) = Len(b) /\ DigitsLess(a, b))

\* A canonical array index: a decimal integer 0 .. 2^32 - 2 without leading
\* zeros.  Such property keys are enumerated first, in ascending order.
IsArrayIndex(s) ==
  /\ Len(s) >= 1
  /\ \A i \in 1..Len(s) : CharAt(s, i) \in Digits
  /\ (Len(s) = 1 \/ CharAt(s, 1) # "0")
  /\ NumLess(s, "4294967295")

(***************************************************************************)
(* The config.enabled object: own keys -> boolean.                         *)
(***************************************************************************)
\* config.enabled[k]
EnabledGet(enabled, k) ==
  IF k \in DOMAIN enabled THEN Bool(enabled[k])
  ELSE IF k \in ObjectPrototypeKeys THEN ProtoMember
  ELSE Undefined

\* config.enabled[k] = v for a boolean v.  Assigning a primitive to
\* __proto__ runs the inherited setter, which ignores it.
EnabledSet(enabled, k, v) ==
  IF k = "__proto__" THEN enabled
  ELSE [x \in DOMAIN enabled \cup {k} |-> IF x = k THEN v.b ELSE enabled[x]]

\* delete config.enabled[k]
EnabledDelete(enabled, k) == [x \in DOMAIN enabled \ {k} |-> enabled[x]]

(***************************************************************************)
(* The config.custom object: a sequence of <<id, cfg>> entries in property *)
(* enumeration order.                                                      *)
(***************************************************************************)
CustomKeys(custom) == {custom[i].id : i \in 1..Len(custom)}

CustomOwn(custom, k) == custom[CHOOSE i \in 1..Len(custom) : custom[i].id = k].cfg

\* config.custom[k]
CustomGet(custom, k) ==
  IF k \in CustomKeys(custom) THEN Cfg(CustomOwn(custom, k))
  ELSE IF k \in ObjectPrototypeKeys THEN ProtoMember
  ELSE Undefined

\* Position of a new own key k: array indices ascending first, then the
\* other keys in insertion order.
\* An object that enumerates the newest key first.
InsertAtFront(custom, k) == 1

InsertAt(custom, k) ==
  IF IsArrayIndex(k)
  THEN 1 + Cardinality({i \in 1..Len(custom) :
                          IsArrayIndex(custom[i].id) /\ NumLess(custom[i].id, k)})
  ELSE Len(custom) + 1

\* config.custom[k] = cfg
CustomSet(custom, k, cfg) ==
  IF k \in CustomKeys(custom)
  THEN [i \in 1..Len(custom) |->
          IF custom[i].id = k THEN [id |-> k, cfg |-> cfg] ELSE custom[i]]
  ELSE LET n == InsertAt(custom, k)
       IN SubSeq(custom, 1, n - 1) \o <<[id |-> k, cfg |-> cfg]>>
            \o SubSeq(custom, n, Len(custom))

\* delete config.custom[k]
CustomDelete(custom, k) == SelectSeq(custom, LAMBDA e : e.id # k)

(***************************************************************************)
(* The built-in registry MCP_SERVERS_BY_PROVIDER['anthropic'], imported    *)
(* from ../mcpServers: a read-only table in declaration order.             *)
(***************************************************************************)
BuiltinServers ==
  << [id |-> "web-search",
      cfg |-> [type |-> Str("http"), url |-> Str("https://search.example/mcp")]],
     [id |-> "files",
      cfg |-> [type |-> Str("stdio"), command |-> Str("npx"),
               args |-> Json("[\"-y\",\"files-mcp\"]")]] >>

BuiltinIds == {BuiltinServers[i].id : i \in 1..Len(BuiltinServers)}

\* builtinServers[k]
BuiltinGet(k) ==
  IF k \in BuiltinIds
  THEN Cfg(BuiltinServers[CHOOSE i \in 1..Len(BuiltinServers) :
                            BuiltinServers[i].id = k].cfg)
  ELSE IF k \in ObjectPrototypeKeys THEN ProtoMember
  ELSE Undefined

\* serverConfig.f for a looked-up server object
Field(x, f) ==
  IF x.t = "config" /\ f \in DOMAIN x.c THEN x.c[f] ELSE Undefined

(***************************************************************************)
(* ConfigStore: the overlay file and its JSON serialization.  The file     *)
(* holds what JSON.stringify wrote; mkdir and writeFile are taken to       *)
(* succeed and to replace the whole file in one step.  The order of the    *)
(* members of enabled is not kept: no response shows it.                   *)
(***************************************************************************)
NoFile == [exists |-> FALSE]

\* JSON.stringify of one server record: members whose value is undefined
\* are left out.
StringifyCfg(c) == [f \in {g \in DOMAIN c : c[g] # Undefined} |-> c[f]]

\* JSON.stringify(config, null, 2): own members in enumeration order.
JsonStringify(config) ==
  [enabled |-> config.enabled,
   custom  |-> [i \in 1..Len(config.custom) |->
                  [id |-> config.custom[i].id,
                   cfg |-> StringifyCfg(config.custom[i].cfg)]]]

\* JSON.parse: members are defined one by one in textual order, which
\* places array-index keys first.
RECURSIVE ParseCustom(_, _)
ParseCustom(text, acc) ==
  IF Len(text) = 0 THEN acc
  ELSE ParseCustom(Tail(text), CustomSet(acc, Head(text).id, Head(text).cfg))

JsonParse(data) ==
  [enabled |-> data.enabled, custom |-> ParseCustom(data.custom, <<>>)]

\* A default overlay without the forEach that enables the built-ins.
DefaultConfigNoFlags == [enabled |-> <<>>, custom |-> <<>>]

\* The catch branch of loadMCPConfig: every built-in enabled, no customs.
DefaultConfig == [enabled |-> [k \in BuiltinIds |-> TRUE], custom |-> <<>>]

\* A file whose text is not JSON, and a file that readFile cannot read.
Unparseable == [exists |-> TRUE, text |-> "{"]
Unreadable == [exists |-> TRUE, denied |-> TRUE]

\* The try branch of loadMCPConfig completes: readFile and JSON.parse succeed.
Readable(f) == f.exists /\ "data" \in DOMAIN f

\* A load whose catch branch starts from the empty overlay and stops there.
loadMCPConfigBareDefault(f) ==
  IF Readable(f) THEN JsonParse(f.data) ELSE [enabled |-> <<>>, custom |-> <<>>]

loadMCPConfig(f) == IF Readable(f) THEN JsonParse(f.data) ELSE DefaultConfig

saveMCPConfig(config) == [exists |-> TRUE, data |-> JsonStringify(config)]

(***************************************************************************)
(* Registry Merge: getAllServers.                                          *)
(***************************************************************************)
\* c.toUpperCase() for one character
UpperChar(c) ==
  IF c \in LowerLetters
  THEN CharAt("ABCDEFGHIJKLMNOPQRSTUVWXYZ",
              CHOOSE n \in 1..26 : CharAt("abcdefghijklmnopqrstuvwxyz", n) = c)
  ELSE c

\* s.replace(/-/g, ' ')
RECURSIVE ReplaceHyphens(_)
ReplaceHyphens(s) ==
  IF Len(s) = 0 THEN ""
  ELSE (IF CharAt(s, 1) = "-" THEN " " ELSE CharAt(s, 1))
         \o ReplaceHyphens(SubSeq(s, 2, Len(s)))

\* id.charAt(0).toUpperCase() + id.slice(1).replace(/-/g, ' ')
Humanize(id) == UpperChar(CharAt(id, 1)) \o ReplaceHyphens(SubSeq(id, 2, Len(id)))

\* config.enabled[id] ?? true
EffectiveEnabled(config, id) == Nullish(EnabledGet(config.enabled, id), Bool(TRUE))

\* A descriptor that ignores the overlay's enabled flags.
DescriptorAlwaysEnabled(id, name, serverConfig, config, builtin) ==
  [id      |-> id,
   name    |-> name,
   type    |-> Field(serverConfig, "type"),
   url     |-> IF Field(serverConfig, "type") = Str("http")
               THEN Field(serverConfig, "url") ELSE Undefined,
   command |-> IF Field(serverConfig, "type") = Str("stdio")
               THEN Field(serverConfig, "command") ELSE Undefined,
   args    |-> IF Field(serverConfig, "type") = Str("stdio")
               THEN Field(serverConfig, "args") ELSE Undefined,
   enabled |-> Bool(TRUE),
   builtin |-> builtin]

Descriptor(id, name, serverConfig, config, builtin) ==
  [id      |-> id,
   name    |-> name,
   type    |-> Field(serverConfig, "type"),
   url     |-> IF Field(serverConfig, "type") = Str("http")
               THEN Field(serverConfig, "url") ELSE Undefined,
   command |-> IF Field(serverConfig, "type") = Str("stdio")
               THEN Field(serverConfig, "command") ELSE Undefined,
   args    |-> IF Field(serverConfig, "type") = Str("stdio")
               THEN Field(serverConfig, "args") ELSE Undefined,
   enabled |-> EffectiveEnabled(config, id),
   builtin |-> builtin]

getAllServers(config) ==
  [i \in 1..Len(BuiltinServers) |->
     Descriptor(BuiltinServers[i].id, Str(Humanize(BuiltinServers[i].id)),
                Cfg(BuiltinServers[i].cfg), config, TRUE)]
  \o
  [i \in 1..Len(config.custom) |->
     LET e == config.custom[i]
     IN Descriptor(e.id,
                   IF Truthy(Field(Cfg(e.cfg), "name"))
                   THEN Field(Cfg(e.cfg), "name") ELSE Str(e.id),
                   Cfg(e.cfg), config, FALSE)]

(***************************************************************************)
(* Request Router: method and path to operation.                           *)
(***************************************************************************)
ApiPath == "/api/mcp-servers"

\* path.match(/^\/api\/mcp-servers\/([^/]+)<suffix>$/)
MatchId(path, suffix) ==
  LET n  == Len(path)
      pl == Len(ApiPath) + 1
      sl == Len(suffix)
  IN /\ n > pl + sl
     /\ SubSeq(path, 1, pl) = ApiPath \o "/"
     /\ SubSeq(path, n - sl + 1, n) = suffix
     /\ \A i \in (pl + 1)..(n - sl) : CharAt(path, i) # "/"

\* The captured group of a matching path
CapturedId(path, suffix) == SubSeq(path, Len(ApiPath) + 2, Len(path) - Len(suffix))

\* A router whose toggle route does not look at the method.
RouteToggleAnyMethod(r) ==
  IF r.method = "GET" /\ r.path = ApiPath THEN [op |-> "list", id |-> ""]
  ELSE IF MatchId(r.path, "/toggle")
  THEN [op |-> "toggle", id |-> CapturedId(r.path, "/toggle")]
  ELSE IF r.method = "POST" /\ MatchId(r.path, "/test")
  THEN [op |-> "test", id |-> CapturedId(r.path, "/test")]
  ELSE IF r.method = "DELETE" /\ MatchId(r.path, "")
  THEN [op |-> "delete", id |-> CapturedId(r.path, "")]
  ELSE IF r.method = "POST" /\ r.path = ApiPath THEN [op |-> "create", id |-> ""]
  ELSE [op |-> "none", id |-> ""]

Route(r) ==
  IF r.method = "GET" /\ r.path = ApiPath THEN [op |-> "list", id |-> ""]
  ELSE IF r.method = "POST" /\ MatchId(r.path, "/toggle")
  THEN [op |-> "toggle", id |-> CapturedId(r.path, "/toggle")]
  ELSE IF r.method = "POST" /\ MatchId(r.path, "/test")
  THEN [op |-> "test", id |-> CapturedId(r.path, "/test")]
  ELSE IF r.method = "DELETE" /\ MatchId(r.path, "")
  THEN [op |-> "delete", id |-> CapturedId(r.path, "")]
  ELSE IF r.method = "POST" /\ r.path = ApiPath THEN [op |-> "create", id |-> ""]
  ELSE [op |-> "none", id |-> ""]

(***************************************************************************)
(* Mutation Operations: the synchronous part of each handler, between its  *)
(* load and its save.                                                      *)
(***************************************************************************)
\* Toggle: config.enabled[id] = !(config.enabled[id] ?? true)
\* Toggle that rebuilds the overlay from the flag map alone.
ToggleConfigFlagsOnly(config, id) ==
  [enabled |-> EnabledSet(config.enabled, id, Not(EffectiveEnabled(config, id))),
   custom  |-> <<>>]

ToggleConfig(config, id) ==
  [config EXCEPT !.enabled = EnabledSet(@, id, Not(EffectiveEnabled(config, id)))]

\* Delete guard: !config.custom[id]
DeleteRejected(config, id) == ~Truthy(CustomGet(config.custom, id))

\* Delete that forgets the enabled entry.
DeleteConfigKeepEnabled(config, id) ==
  [enabled |-> config.enabled, custom |-> CustomDelete(config.custom, id)]

\* delete config.custom[id]; delete config.enabled[id]
DeleteConfig(config, id) ==
  [enabled |-> EnabledDelete(config.enabled, id),
   custom  |-> CustomDelete(config.custom, id)]

\* Create validation without the url test.
CreateInvalidNoUrlCheck(body) ==
  IF ~Truthy(body.id) \/ ~Truthy(body.type)
  THEN "Missing required fields: id, type"
  ELSE IF body.type = Str("stdio") /\ ~Truthy(body.command)
  THEN "Stdio servers require a command"
  ELSE IF ~IdFormatOk(JsToString(body.id))
  THEN "Server ID must be lowercase alphanumeric with dashes"
  ELSE ""

\* Create validation, before the overlay is loaded: "" when the body passes.
CreateInvalid(body) ==
  IF ~Truthy(body.id) \/ ~Truthy(body.type)
  THEN "Missing required fields: id, type"
  ELSE IF body.type = Str("http") /\ ~Truthy(body.url)
  THEN "HTTP servers require a URL"
  ELSE IF body.type = Str("stdio") /\ ~Truthy(body.command)
  THEN "Stdio servers require a command"
  ELSE IF ~IdFormatOk(JsToString(body.id))
  THEN "Server ID must be lowercase alphanumeric with dashes"
  ELSE ""

\* The conflict test with the built-in registry left out.
CreateConflictCustomOnly(config, key) == Truthy(CustomGet(config.custom, key))

\* The conflict test with the custom servers left out.
CreateConflictBuiltinOnly(config, key) == Truthy(BuiltinGet(key))

\* Create conflict: builtinServers[id] || config.custom[id]
\* A Create without the conflict check.
CreateConflictNever(config, key) == FALSE

CreateConflict(config, key) ==
  Truthy(BuiltinGet(key)) \/ Truthy(CustomGet(config.custom, key))

\* The record Create stores: the http shape for type 'http', the stdio
\* shape for every other type.
CreateRecord(body) ==
  IF body.type = Str("http")
  THEN [type |-> Str("http"), name |-> body.name, url |-> body.url,
        headers |-> body.headers]
  ELSE [type |-> Str("stdio"), name |-> body.name, command |-> body.command,
        args |-> body.args, env |-> body.env]

\* Create that leaves the enabled entry as it was.
CreateConfigNoEnable(config, body) ==
  [enabled |-> config.enabled,
   custom  |-> CustomSet(config.custom, JsToString(body.id), CreateRecord(body))]

\* config.custom[id] = record; config.enabled[id] = true
CreateConfig(config, body) ==
  LET key == JsToString(body.id)
  IN [enabled |-> EnabledSet(config.enabled, key, Bool(TRUE)),
      custom  |-> CustomSet(config.custom, key, CreateRecord(body))]

\* Probe lookup: builtinServers[id] || config.custom[id]
ProbeLookup(config, id) ==
  IF Truthy(BuiltinGet(id)) THEN BuiltinGet(id) ELSE CustomGet(config.custom, id)

\* response.ok || response.status === 404 || response.status === 405
ProbeAccepts(status) == (status >= 200 /\ status <= 299) \/ status = 404 \/ status = 405

(***************************************************************************)
(* Requests in flight.  A request holds the config it loaded ("loaded"),   *)
(* waits for its fetch ("fetching"), or has answered ("done").  config is  *)
(* the overlay as the request loaded it, io the file accesses it has made. *)
(* Handlers keep no state of their own between requests, so the requests   *)
(* in flight form a bag.                                                   *)
(***************************************************************************)
NoBody == [none |-> TRUE]

NoConfig == [none |-> TRUE]

NoResp == [none |-> TRUE]

\* The value a handler returns for a route it does not handle.
NotHandled == [handled |-> FALSE]

Fetching(id) ==
  [pc |-> "fetching", op |-> "test", id |-> id, body |-> NoBody,
   config |-> NoConfig, resp |-> NoResp, io |-> <<"read">>]

Loaded(op, id, body, config) ==
  [pc |-> "loaded", op |-> op, id |-> id, body |-> body,
   config |-> config, resp |-> NoResp, io |-> <<"read">>]

Done(op, id, body, config, resp, io) ==
  [pc |-> "done", op |-> op, id |-> id, body |-> body,
   config |-> config, resp |-> resp, io |-> io]

Failure(status, error) == [handled |-> TRUE, status |-> status, success |-> FALSE, error |-> error]

(***************************************************************************)
(* Bounds and inputs.                                                      *)
(***************************************************************************)
\* Requests that may be in flight at once.
MaxInFlight == 2

Body(id, name, type, url, command) ==
  [id |-> id, name |-> name, type |-> type, url |-> url, headers |-> Undefined,
   command |-> command, args |-> Undefined, env |-> Undefined]

ListReq == [method |-> "GET", path |-> ApiPath, body |-> NoBody]

ToggleReq(id) == [method |-> "POST", path |-> ApiPath \o "/" \o id \o "/toggle", body |-> NoBody]

TestReq(id) == [method |-> "POST", path |-> ApiPath \o "/" \o id \o "/test", body |-> NoBody]

DeleteReq(id) == [method |-> "DELETE", path |-> ApiPath \o "/" \o id, body |-> NoBody]

CreateReq(body) == [method |-> "POST", path |-> ApiPath, body |-> body]

\* Accepted bodies
GoodBodies ==
  { Body(Str("my-tool"), Undefined, Str("http"), Str("https://x"), Undefined),
    Body(Str("my-tool"), Str("My Tool"), Str("stdio"), Undefined, Str("npx")),
    Body(Str("10"), Undefined, Str("stdio"), Undefined, Str("node")),
    Body(Str("2"), Undefined, Str("http"), Str("https://y"), Undefined),
    Body(Str("2"), Undefined, Str("sse"), Str("https://y"), Undefined) }

\* Bodies that fail validation or collide
BadBodies ==
  { Body(Undefined, Undefined, Str("http"), Str("https://x"), Undefined),
    Body(Str(""), Undefined, Str("http"), Str("https://x"), Undefined),
    Body(Str("my-tool"), Undefined, Undefined, Str("https://x"), Undefined),
    Body(Str("my-tool"), Undefined, Str("http"), Undefined, Undefined),
    Body(Str("my-tool"), Undefined, Str("http"), Str(""), Undefined),
    Body(Str("my-tool"), Undefined, Str("stdio"), Str("https://x"), Undefined),
    Body(Str("My_Tool"), Undefined, Str("http"), Str("https://x"), Undefined),
    Body(Str("web-search"), Undefined, Str("http"), Str("https://x"), Undefined),
    Body(Str("web-search"), Undefined, Str("http"), Undefined, Undefined),
    Body(Str("constructor"), Undefined, Str("http"), Str("https://x"), Undefined) }

UnroutedReqs ==
  { [method |-> "PUT", path |-> ApiPath, body |-> NoBody],
    [method |-> "GET", path |-> ApiPath \o "/my-tool", body |-> NoBody],
    [method |-> "POST", path |-> ApiPath \o "/a/b/toggle", body |-> NoBody],
    [method |-> "DELETE", path |-> ApiPath, body |-> NoBody],
    [method |-> "POST", path |-> ApiPath \o "/my-tool", body |-> NoBody],
    [method |-> "POST", path |-> ApiPath \o "/", body |-> NoBody],
    [method |-> "POST", path |-> ApiPath \o "//toggle", body |-> NoBody],
    [method |-> "GET", path |-> ApiPath \o "/my-tool/toggle", body |-> NoBody],
    [method |-> "DELETE", path |-> ApiPath \o "/my-tool/test", body |-> NoBody],
    [method |-> "POST", path |-> "/v2" \o ApiPath \o "/my-tool/test", body |-> NoBody],
    [method |-> "POST", path |-> ApiPath \o "/my-tool/toggle/", body |-> NoBody] }

\* Identifiers named in request paths, one request at a time
SeqIds == {"web-search", "my-tool", "2", "constructor", "__proto__"}

SeqRequests ==
  {ListReq}
    \cup {ToggleReq(id) : id \in SeqIds}
    \cup {TestReq(id) : id \in SeqIds}
    \cup {DeleteReq(id) : id \in SeqIds}
    \cup {CreateReq(b) : b \in GoodBodies \cup BadBodies}
    \cup UnroutedReqs

\* Identifiers named in request paths of interleaved requests
ConcIds == {"web-search", "my-tool"}

ConcBodies ==
  { Body(Str("my-tool"), Undefined, Str("http"), Str("https://x"), Undefined),
    Body(Str("My_Tool"), Undefined, Str("http"), Str("https://x"), Undefined),
    Body(Str("web-search"), Undefined, Str("http"), Str("https://x"), Undefined) }

ConcRequests ==
  {ListReq, TestReq("my-tool")}
    \cup {ToggleReq(id) : id \in ConcIds}
    \cup {DeleteReq(id) : id \in ConcIds}
    \cup {CreateReq(b) : b \in ConcBodies}
    \cup {[method |-> "PUT", path |-> ApiPath, body |-> NoBody]}

\* What the probed endpoint does: an HTTP status, or a transport failure.
FetchOutcomes ==
  {[status |-> n, error |-> ""] : n \in {200, 204, 404, 405, 500}}
    \cup {[status |-> 0, error |-> "The operation timed out."]}

(***************************************************************************)
(* Handlers.                                                               *)
(***************************************************************************)
InFlight == BagToSet(req)

\* A request arrives
Arrive(x) == req' = req (+) SetToBag({x})

\* The request x moves on to y
Move(x, y) == req' = (req (-) SetToBag({x})) (+) SetToBag({y})

Init ==
  /\ file = NoFile
  /\ req = EmptyBag

\* GET /api/mcp-servers
\* A list that writes the default overlay when it finds no file.
ListInitializing(r, n) ==
  /\ BagCardinality(req) < n
  /\ Route(r).op = "list"
  /\ Arrive(Done("list", "", NoBody, NoConfig,
                 [handled |-> TRUE, status |-> 200, success |-> TRUE,
                  servers |-> getAllServers(loadMCPConfig(file))],
                 <<"read">>))
  /\ file' = IF file.exists THEN file ELSE saveMCPConfig(loadMCPConfig(file))

List(r, n) ==
  /\ BagCardinality(req) < n
  /\ Route(r).op = "list"
  /\ Arrive(Done("list", "", NoBody, NoConfig,
                 [handled |-> TRUE, status |-> 200, success |-> TRUE,
                  servers |-> getAllServers(loadMCPConfig(file))],
                 <<"read">>))
  /\ UNCHANGED file

\* POST /api/mcp-servers/:id/toggle, up to the load
ToggleLoad(r, n) ==
  /\ BagCardinality(req) < n
  /\ Route(r).op = "toggle"
  /\ Arrive(Loaded("toggle", Route(r).id, NoBody, loadMCPConfig(file)))
  /\ UNCHANGED file

\* The answer of Toggle
ToggleResponse(config, id) ==
  [handled |-> TRUE, status |-> 200, success |-> TRUE, id |-> Str(id),
   enabled |-> EnabledGet(config.enabled, id)]

\* Toggle: flip, save, answer
ToggleSave ==
  \E x \in InFlight :
  /\ x.pc = "loaded"
  /\ x.op = "toggle"
  /\ LET config == ToggleConfig(x.config, x.id)
     IN /\ file' = saveMCPConfig(config)
        /\ Move(x, Done("toggle", x.id, NoBody, x.config, ToggleResponse(config, x.id),
                        <<"read", "write">>))

\* POST /api/mcp-servers/:id/test, up to the fetch
ProbeLoad(r, n) ==
  /\ BagCardinality(req) < n
  /\ Route(r).op = "test"
  /\ LET id == Route(r).id
         serverConfig == ProbeLookup(loadMCPConfig(file), id)
     IN Arrive(IF ~Truthy(serverConfig)
               THEN Done("test", id, NoBody, NoConfig, Failure(404, "Server not found"), <<"read">>)
               ELSE IF Field(serverConfig, "type") = Str("http")
               THEN Fetching(id)
               ELSE Done("test", id, NoBody, NoConfig,
                         [handled |-> TRUE, status |-> 200, success |-> TRUE,
                          message |-> "Stdio server configuration validated"],
                         <<"read">>))
  /\ UNCHANGED file

\* The answer of the probe of an http server, by what the fetch did
ProbeResponse(o) ==
  IF o.error # ""
  THEN [handled |-> TRUE, status |-> 200, success |-> FALSE, error |-> o.error]
  ELSE IF ProbeAccepts(o.status)
  THEN [handled |-> TRUE, status |-> 200, success |-> TRUE]
  ELSE [handled |-> TRUE, status |-> 200, success |-> FALSE,
        error |-> "Server returned status " \o ToString(o.status)]

\* Probe: the fetch settles
ProbeFetch ==
  \E x \in InFlight :
  /\ x.pc = "fetching"
  /\ \E o \in FetchOutcomes :
       Move(x, Done("test", x.id, NoBody, NoConfig, ProbeResponse(o), <<"read">>))
  /\ UNCHANGED file

\* DELETE /api/mcp-servers/:id, up to the guard
DeleteLoad(r, n) ==
  /\ BagCardinality(req) < n
  /\ Route(r).op = "delete"
  /\ LET id == Route(r).id
         config == loadMCPConfig(file)
     IN Arrive(IF DeleteRejected(config, id)
               THEN Done("delete", id, NoBody, NoConfig,
                         Failure(400, "Cannot delete built-in MCP servers"), <<"read">>)
               ELSE Loaded("delete", id, NoBody, config))
  /\ UNCHANGED file

\* Delete: remove, save, answer
DeleteSave ==
  \E x \in InFlight :
  /\ x.pc = "loaded"
  /\ x.op = "delete"
  /\ file' = saveMCPConfig(DeleteConfig(x.config, x.id))
  /\ Move(x, Done("delete", x.id, NoBody, x.config,
                  [handled |-> TRUE, status |-> 200, success |-> TRUE, id |-> Str(x.id)],
                  <<"read", "write">>))

\* POST /api/mcp-servers: validation, load and conflict check
Create(r, n) ==
  /\ BagCardinality(req) < n
  /\ Route(r).op = "create"
  /\ LET body == r.body
         key == JsToString(body.id)
         config == loadMCPConfig(file)
     IN Arrive(IF CreateInvalid(body) # ""
               THEN Done("create", key, body, NoConfig, Failure(400, CreateInvalid(body)), <<>>)
               ELSE IF CreateConflict(config, key)
               THEN Done("create", key, body, NoConfig,
                         Failure(400, "MCP server with this ID already exists"),
                         <<"read">>)
               ELSE Loaded("create", key, body, config))
  /\ UNCHANGED file

\* Create: insert, enable, save, answer
CreateSave ==
  \E x \in InFlight :
  /\ x.pc = "loaded"
  /\ x.op = "create"
  /\ file' = saveMCPConfig(CreateConfig(x.config, x.body))
  /\ Move(x, Done("create", x.id, x.body, x.config,
                  [handled |-> TRUE, status |-> 200, success |-> TRUE, id |-> x.body.id],
                  <<"read", "write">>))

\* Any other method and path: return undefined
Unhandled(r, n) ==
  /\ BagCardinality(req) < n
  /\ Route(r).op = "none"
  /\ Arrive(Done("none", "", NoBody, NoConfig, NotHandled, <<>>))
  /\ UNCHANGED file

\* The response has been delivered.
Return ==
  \E x \in InFlight :
  /\ x.pc = "done"
  /\ req' = req (-) SetToBag({x})
  /\ UNCHANGED file

\* A request arrives while fewer than n are in flight.
Begin(r, n) ==
  \/ List(r, n)
  \/ ToggleLoad(r, n)
  \/ ProbeLoad(r, n)
  \/ DeleteLoad(r, n)
  \/ Create(r, n)
  \/ Unhandled(r, n)

Finish ==
  \/ ToggleSave
  \/ ProbeFetch
  \/ DeleteSave
  \/ CreateSave
  \/ Return

\* Requests arrive at any time and interleave at their awaits.
Next ==
  \/ \E r \in ConcRequests : Begin(r, MaxInFlight)
  \/ Finish

Spec == Init /\ [][Next]_vars

\* One request at a time: a request arrives only when none is in flight.
\* Outside the program: between two requests the overlay file is removed,
\* overwritten with text that is not JSON, or made unreadable.
Damage ==
  /\ req = EmptyBag
  /\ file' \in {NoFile, Unparseable, Unreadable}
  /\ UNCHANGED req

NextSeq ==
  \/ \E r \in SeqRequests : Begin(r, 1)
  \/ Finish

SpecSeq == Init /\ [][NextSeq]_vars

\* One request at a time over a file that can be damaged between requests
NextEnv ==
  \/ \E r \in SeqRequests : Begin(r, 1)
  \/ Finish
  \/ Damage

SpecEnv == Init /\ [][NextEnv]_vars

(***************************************************************************)
(* Properties.                                                             *)
(***************************************************************************)
\* The custom and enabled mappings as the overlay file holds them
PersistedCustom == IF Readable(file) THEN file.data.custom ELSE <<>>

PersistedEnabled == IF Readable(file) THEN file.data.enabled ELSE <<>>

\* A non-empty string of lowercase letters, digits and hyphens
OnlyIdChars(s) ==
  /\ Len(s) >= 1
  /\ \A i \in 1..Len(s) : CharAt(s, i) \in LowerLetters \cup Digits \cup {"-"}

\* C1: starting from no overlay file, under every interleaving of list,
\* Toggle, Create, Delete and Probe requests, no key of the persisted custom
\* mapping is an identifier of the built-in registry.
C1_NoBuiltinInCustom == CustomKeys(PersistedCustom) \cap BuiltinIds = {}

\* C1 witness: a Create of a built-in identifier was turned down while the
\* overlay holds a custom server.
C1_Witness ==
  /\ CustomKeys(PersistedCustom) # {}
  /\ \E x \in InFlight :
       /\ x.pc = "done"
       /\ x.op = "create"
       /\ x.id \in BuiltinIds
       /\ x.resp.status = 400
       /\ x.io = <<"read">>

\* C2: every key of the persisted custom mapping is a non-empty string of
\* lowercase letters, digits and hyphens, and a Create whose id has any
\* other character is answered with a failure and writes nothing.
C2_CustomKeysWellFormed ==
  /\ \A k \in CustomKeys(PersistedCustom) : OnlyIdChars(k)
  /\ \A x \in InFlight :
       (x.op = "create" /\ ~OnlyIdChars(JsToString(x.body.id)))
         => (x.pc = "done" /\ ~x.resp.success /\ x.io = <<>>)

\* C2 witness: a Create of "My_Tool" was turned down while the overlay holds
\* a custom server.
C2_Witness ==
  /\ CustomKeys(PersistedCustom) # {}
  /\ \E x \in InFlight :
       /\ x.pc = "done"
       /\ x.op = "create"
       /\ x.id = "My_Tool"
       /\ x.resp.status = 400

\* A well-formed ServerConfig: Http with a non-empty url, or Stdio with a
\* non-empty command
WellFormedServerConfig(c) ==
  /\ "type" \in DOMAIN c
  /\ \/ (c.type = Str("http") /\ "url" \in DOMAIN c
           /\ c.url.t = "string" /\ c.url.s # "")
     \/ (c.type = Str("stdio") /\ "command" \in DOMAIN c
           /\ c.command.t = "string" /\ c.command.s # "")

\* C3: every record that Create stores in custom is a well-formed
\* ServerConfig, for every body Create accepts, bodies whose type is
\* neither "http" nor "stdio" included.
C3_StoredRecordsWellFormed ==
  \A i \in 1..Len(PersistedCustom) : WellFormedServerConfig(PersistedCustom[i].cfg)

\* The identifiers of a listing, in order
ListedIds(servers) == [i \in 1..Len(servers) |-> servers[i].id]

\* The request y arrives in this step
Arrives(y) == req' = req (+) SetToBag({y})

\* C4: two Toggle(id) requests run one after the other, nothing in between,
\* leave the effective-enabled state of id as it was before the first, and
\* their responses report opposite booleans.  Stated at the end of the first
\* Toggle, the second being the handler applied to the overlay it left.
C4_ToggleTwice ==
  \A x \in InFlight :
    (x.pc = "done" /\ x.op = "toggle") =>
      LET first  == x.resp
          second == ToggleConfig(loadMCPConfig(file), x.id)
          answer == ToggleResponse(second, x.id)
          after  == loadMCPConfig(saveMCPConfig(second))
      IN /\ Truthy(EffectiveEnabled(after, x.id)) = Truthy(EffectiveEnabled(x.config, x.id))
         /\ first.enabled.t = "boolean"
         /\ answer.enabled.t = "boolean"
         /\ first.enabled.b = ~answer.enabled.b

\* C5: Toggle(id) in isolation succeeds for every id, sets enabled[id] to
\* the negation of its effective value (true when absent), returns that
\* value, leaves custom and every other enabled entry as loaded, and adds no
\* descriptor to the listing.
C5_ToggleEffect ==
  \A x \in InFlight :
    (x.pc = "done" /\ x.op = "toggle") =>
      LET before == x.config
          now    == loadMCPConfig(file)
          new    == IF x.id \in DOMAIN before.enabled
                    THEN ~before.enabled[x.id] ELSE FALSE
      IN /\ x.resp.status = 200
         /\ x.resp.success
         /\ x.resp.enabled = Bool(new)
         /\ now.enabled = [k \in DOMAIN before.enabled \cup {x.id} |->
                             IF k = x.id THEN new ELSE before.enabled[k]]
         /\ now.custom = before.custom
         /\ ListedIds(getAllServers(now)) = ListedIds(getAllServers(before))

\* A field the claim calls missing: absent or empty
Missing(v) == v = Undefined \/ v = Str("")

\* C6: a Create whose identifier is a built-in identifier or a key of custom
\* is answered 400 with success:false (the conflict error when the body is
\* otherwise valid), and the step leaves the overlay file as it was.
C6_ConflictStep ==
  \A y \in BagToSet(req') :
    (/\ Arrives(y)
     /\ y.op = "create"
     /\ (y.id \in BuiltinIds \/ y.id \in CustomKeys(PersistedCustom)))
    => /\ y.pc = "done"
       /\ y.resp.status = 400
       /\ ~y.resp.success
       /\ y.io \in {<<>>, <<"read">>}
       /\ file' = file
       /\ (CreateInvalid(y.body) = ""
             => y.resp.error = "MCP server with this ID already exists")

C6_CreateConflictRejected == [][C6_ConflictStep]_vars

\* C6 witness: a Create of an identifier that is a key of custom got the
\* conflict error, and the record is still in the file.
C6_Witness ==
  \E x \in InFlight :
    /\ x.pc = "done"
    /\ x.op = "create"
    /\ x.resp.status = 400
    /\ x.resp.error = "MCP server with this ID already exists"
    /\ x.id \in CustomKeys(PersistedCustom)
    /\ x.id \in DOMAIN PersistedEnabled
    /\ ~PersistedEnabled[x.id]

\* The bodies the claim lists as failing validation
FailsValidation(b) ==
  \/ Missing(b.id)
  \/ Missing(b.type)
  \/ (b.type = Str("http") /\ Missing(b.url))
  \/ (b.type = Str("stdio") /\ Missing(b.command))
  \/ ~OnlyIdChars(JsToString(b.id))

\* C7: a Create that fails validation is answered 400 with success:false
\* and neither reads nor writes the overlay file.
C7_InvalidStep ==
  \A y \in BagToSet(req') :
    (Arrives(y) /\ y.op = "create" /\ FailsValidation(y.body))
    => /\ y.pc = "done"
       /\ y.resp.status = 400
       /\ ~y.resp.success
       /\ y.io = <<>>
       /\ file' = file

C7_InvalidCreateRejected == [][C7_InvalidStep]_vars

\* C7 witness: a Create of "My_Tool" was answered 400 without touching an
\* overlay that holds a custom server.
C7_Witness ==
  /\ CustomKeys(PersistedCustom) # {}
  /\ \E x \in InFlight :
       /\ x.pc = "done"
       /\ x.op = "create"
       /\ x.body.id = Str("My_Tool")
       /\ x.resp.status = 400
       /\ x.io = <<>>

\* C8: a Delete of an id that is not a key of custom is answered 400 and
\* writes nothing, and no step removes a built-in's enabled entry.
C8_DeleteStep ==
  /\ \A y \in BagToSet(req') :
       (/\ Arrives(y)
        /\ y.op = "delete"
        /\ y.id \notin CustomKeys(PersistedCustom))
       => /\ y.pc = "done"
          /\ y.resp.status = 400
          /\ ~y.resp.success
          /\ file' = file
  /\ \A b \in BuiltinIds : b \in DOMAIN PersistedEnabled => b \in DOMAIN PersistedEnabled'

C8_DeleteOnlyCustom == [][C8_DeleteStep]_vars

\* C9: a Delete of a key of custom succeeds; afterwards the id is a key of
\* neither custom nor enabled, every other entry of both is as it was, and
\* the listing has no descriptor for the id.
C9_DeleteEffect ==
  \A x \in InFlight :
    (x.pc = "done" /\ x.op = "delete") =>
      /\ ~x.resp.success => x.id \notin CustomKeys(PersistedCustom)
      /\ (x.resp.success /\ x.id \in CustomKeys(x.config.custom)) =>
           LET before == x.config
               now    == loadMCPConfig(file)
               listed == getAllServers(now)
           IN /\ x.resp.status = 200
              /\ x.id \notin CustomKeys(now.custom)
              /\ x.id \notin DOMAIN now.enabled
              /\ now.custom = SelectSeq(before.custom, LAMBDA e : e.id # x.id)
              /\ now.enabled = [k \in DOMAIN before.enabled \ {x.id} |-> before.enabled[k]]
              /\ \A i \in 1..Len(listed) : listed[i].id # x.id

\* C9 witness: a custom server with an enabled entry was deleted while
\* another custom server stays.
C9_Witness ==
  \E x \in InFlight :
    /\ x.pc = "done"
    /\ x.op = "delete"
    /\ x.resp.success
    /\ x.id \in CustomKeys(x.config.custom)
    /\ x.id \in DOMAIN x.config.enabled
    /\ Len(x.config.custom) >= 2
    /\ Len(PersistedCustom) >= 1

\* C10: after a successful Create the listing of the overlay it left has
\* exactly one descriptor for the id, with builtin=false and enabled=true,
\* also when a stale enabled[id]=false entry was there before.
C10_CreatedIsListed ==
  \A x \in InFlight :
    (x.pc = "done" /\ x.op = "create" /\ x.resp.success) =>
      LET listed == getAllServers(loadMCPConfig(file))
      IN /\ Cardinality({i \in 1..Len(listed) : listed[i].id = x.id}) = 1
         /\ \A i \in 1..Len(listed) :
              listed[i].id = x.id =>
                (~listed[i].builtin /\ listed[i].enabled = Bool(TRUE))

\* C10 witness: a Create succeeded over a stale enabled[id]=false entry.
C10_Witness ==
  \E x \in InFlight :
    /\ x.pc = "done"
    /\ x.op = "create"
    /\ x.resp.success
    /\ x.id \in DOMAIN x.config.enabled
    /\ ~x.config.enabled[x.id]

\* The listing has exactly one descriptor per identifier of ids, marks as
\* built-in exactly the registry's identifiers, and reports enabled[id] if
\* present, else true.
ListingMatches(servers, custom, enabled) ==
  LET ids == BuiltinIds \cup CustomKeys(custom)
  IN /\ {servers[i].id : i \in 1..Len(servers)} = ids
     /\ Len(servers) = Cardinality(ids)
     /\ \A i \in 1..Len(servers) :
          /\ servers[i].builtin = (servers[i].id \in BuiltinIds)
          /\ servers[i].enabled =
               Bool(IF servers[i].id \in DOMAIN enabled
                    THEN enabled[servers[i].id] ELSE TRUE)

\* C11: with no overlay file a list answers one descriptor per built-in,
\* each builtin=true and enabled=true, and nothing else; in every state a
\* list answers exactly one descriptor per identifier of built-in and custom,
\* builtin=true exactly for the registry's, enabled as the overlay says or
\* true.
C11_ListingIsMerge ==
  \A x \in InFlight :
    (x.pc = "done" /\ x.op = "list") =>
      /\ x.resp.status = 200
      /\ x.resp.success
      /\ ListingMatches(x.resp.servers, PersistedCustom, PersistedEnabled)
      /\ ~file.exists =>
           /\ Len(x.resp.servers) = Len(BuiltinServers)
           /\ \A i \in 1..Len(x.resp.servers) :
                /\ x.resp.servers[i].id = BuiltinServers[i].id
                /\ x.resp.servers[i].builtin
                /\ x.resp.servers[i].enabled = Bool(TRUE)

\* C11 witness: a list answered with a disabled built-in, a disabled custom
\* server and a second custom server.
C11_Witness ==
  \E x \in InFlight :
    /\ x.pc = "done"
    /\ x.op = "list"
    /\ Len(x.resp.servers) >= Len(BuiltinServers) + 2
    /\ \E i, j \in 1..Len(x.resp.servers) :
         /\ x.resp.servers[i].builtin
         /\ x.resp.servers[i].enabled = Bool(FALSE)
         /\ ~x.resp.servers[j].builtin
         /\ x.resp.servers[j].enabled = Bool(FALSE)

\* C12: loading the overlay, saving the loaded record and loading again gives
\* the same enabled and custom content as the first load.
C12_SaveLoadFixedPoint ==
  LET first  == loadMCPConfig(file)
      second == loadMCPConfig(saveMCPConfig(first))
  IN /\ second.enabled = first.enabled
     /\ second.custom = first.custom

\* C12 witness: a request that saved exactly what it loaded has answered,
\* over a file with three custom records (one without a name, which
\* JSON.stringify left out) and a disabled entry.
C12_Witness ==
  /\ file.exists
  /\ Len(PersistedCustom) >= 3
  /\ \E i \in 1..Len(PersistedCustom) : "name" \notin DOMAIN PersistedCustom[i].cfg
  /\ \E k \in DOMAIN PersistedEnabled : ~PersistedEnabled[k]
  /\ \E x \in InFlight :
       /\ x.pc = "done"
       /\ x.op = "toggle"
       /\ file = saveMCPConfig(x.config)

\* A mutation that has answered success:true (its loaded overlay is kept in
\* the record).
Succeeded(x) ==
  /\ x.pc = "done"
  /\ x.op \in {"toggle", "delete", "create"}
  /\ x.resp.status = 200
  /\ x.resp.success

\* The overlay a successful mutation handed to save.
Saved(x) ==
  CASE x.op = "toggle" -> ToggleConfig(x.config, x.id)
    [] x.op = "delete" -> DeleteConfig(x.config, x.id)
    [] x.op = "create" -> CreateConfig(x.config, x.body)

\* The effect of a successful mutation is in the persisted overlay.
EffectPersisted(x) ==
  CASE x.op = "toggle" -> /\ x.id \in DOMAIN PersistedEnabled
                          /\ Bool(PersistedEnabled[x.id]) = x.resp.enabled
    [] x.op = "delete" -> /\ x.id \notin CustomKeys(PersistedCustom)
                          /\ x.id \notin DOMAIN PersistedEnabled
    [] x.op = "create" -> /\ x.id \in CustomKeys(PersistedCustom)
                          /\ x.id \in DOMAIN PersistedEnabled
                          /\ PersistedEnabled[x.id]

\* C13: mutations are load-modify-save on the whole file.  Of two successful
\* mutations on different identifiers, the second having loaded what the
\* first saved and being the last to save, both effects are in the file.
\* (The lost update of two mutations that both loaded before either saved
\* is the witness.)
C13_SerialKeepsBoth ==
  \A x, y \in InFlight :
    (/\ Succeeded(x)
     /\ Succeeded(y)
     /\ x.id # y.id
     /\ y.config = loadMCPConfig(saveMCPConfig(Saved(x)))
     /\ file = saveMCPConfig(Saved(y)))
    => (EffectPersisted(x) /\ EffectPersisted(y))

\* C13 witness: two mutations on different identifiers loaded the same
\* overlay, both answered success:true, and the file holds the later save
\* only, without the effect of the earlier one.
C13_Witness ==
  \E x, y \in InFlight :
    /\ Succeeded(x)
    /\ Succeeded(y)
    /\ x.id # y.id
    /\ x.config = y.config
    /\ file = saveMCPConfig(Saved(y))
    /\ EffectPersisted(y)
    /\ ~EffectPersisted(x)

\* The serial case of C13 happens: the second mutation loaded what the first
\* saved, and both effects are in the file.
C13_SerialReached ==
  \E x, y \in InFlight :
    /\ Succeeded(x)
    /\ Succeeded(y)
    /\ x.id # y.id
    /\ y.config = loadMCPConfig(saveMCPConfig(Saved(x)))
    /\ file = saveMCPConfig(Saved(y))
    /\ x.op = "create"
    /\ y.op = "toggle"

\* The transport type the overlay and the registry resolve id to ("" when
\* the identifier is unknown).
ResolvedType(id) ==
  IF id \in BuiltinIds THEN Field(BuiltinGet(id), "type").s
  ELSE IF id \in CustomKeys(PersistedCustom)
  THEN Field(CustomGet(PersistedCustom, id), "type").s
  ELSE ""

\* What the probe is to answer for an http server whose fetch ended as o.
ProbeAnswers(resp, o) ==
  /\ resp.handled
  /\ resp.status = 200
  /\ IF o.error # "" THEN ~resp.success
     ELSE IF (o.status >= 200 /\ o.status <= 299) \/ o.status \in {404, 405}
     THEN resp.success
     ELSE /\ ~resp.success
          /\ \E i \in 1..Len(resp.error) :
               SubSeq(resp.error, i, Len(resp.error)) = ToString(o.status)

C14_ProbeStep ==
  /\ \A y \in BagToSet(req') :
       (y.op = "test" /\ CopiesIn(y, req') > CopiesIn(y, req)) =>
         /\ file' = file
         /\ IF \E x \in InFlight : x.pc = "fetching" /\ Move(x, y)
            THEN \E o \in FetchOutcomes : ProbeAnswers(y.resp, o)
            ELSE CASE ResolvedType(y.id) = "" ->
                        /\ y.pc = "done"
                        /\ y.resp.status = 404
                        /\ ~y.resp.success
                   [] ResolvedType(y.id) = "http" -> y.pc = "fetching"
                   [] OTHER ->
                        /\ y.pc = "done"
                        /\ y.resp.status = 200
                        /\ y.resp.success

\* C14: the probe answers 404 with success:false for an unknown identifier,
\* success:true for an http server whose endpoint answers 2xx, 404 or 405,
\* status 200 with success:false and the code in the message for any other
\* endpoint status, status 200 with success:false for a transport failure or
\* timeout, success:true for a stdio server; it never changes the overlay.
C14_ProbeIsTotal == [][C14_ProbeStep]_vars

\* The default overlay: every built-in enabled, no custom server.
IsDefaultOverlay(c) ==
  /\ DOMAIN c.enabled = BuiltinIds
  /\ \A k \in BuiltinIds : c.enabled[k]
  /\ c.custom = <<>>

C15_LoadStep ==
  \A y \in BagToSet(req') :
    (Arrives(y) /\ y.io = <<"read">>) =>
      /\ file' = file
      /\ ~Readable(file) =>
           /\ y.pc = "loaded" => IsDefaultOverlay(y.config)
           /\ y.op = "list" =>
                /\ Len(y.resp.servers) = Len(BuiltinServers)
                /\ \A i \in 1..Len(BuiltinServers) :
                     /\ y.resp.servers[i].id = BuiltinServers[i].id
                     /\ y.resp.servers[i].builtin
                     /\ y.resp.servers[i].enabled = Bool(TRUE)
           /\ (y.op = "test" /\ y.id \notin BuiltinIds \cup ObjectPrototypeKeys) =>
                y.resp.status = 404
           /\ (y.op = "delete" /\ y.id \notin ObjectPrototypeKeys) =>
                /\ y.pc = "done"
                /\ y.resp.status = 400
           /\ (y.op = "create" /\ y.id \notin BuiltinIds \cup ObjectPrototypeKeys) =>
                y.pc = "loaded"

\* C15: a request that loads the overlay when the file is missing, unreadable
\* or not JSON gets the default overlay (every built-in enabled, no custom
\* server) and goes on as with no file: the load raises nothing and leaves
\* the file as it is.
C15_LoadFallsBack == [][C15_LoadStep]_vars

\* C15 witness: a mutation holds the default overlay it loaded from a file
\* that is not JSON.
C15_Witness ==
  \E x \in InFlight :
    /\ x.pc = "loaded"
    /\ file = Unparseable
    /\ IsDefaultOverlay(x.config)

\* A path segment that can stand for {id}: not empty, no slash.
IdSegment(s) == Len(s) >= 1 /\ \A i \in 1..Len(s) : CharAt(s, i) # "/"

\* The request is one of the five rows of the routing table.
InRoutingTable(r) ==
  \/ r.method \in {"GET", "POST"} /\ r.path = ApiPath
  \/ \E i \in 1..Len(r.path) :
       LET id == SubSeq(r.path, Len(ApiPath) + 2, i)
       IN /\ IdSegment(id)
          /\ \/ r.method = "POST" /\ r.path = ApiPath \o "/" \o id \o "/toggle"
             \/ r.method = "POST" /\ r.path = ApiPath \o "/" \o id \o "/test"
             \/ r.method = "DELETE" /\ r.path = ApiPath \o "/" \o id

C16_RouteStep ==
  /\ \A r \in SeqRequests :
       Begin(r, 1) =>
         /\ Unhandled(r, 1) <=> ~InRoutingTable(r)
         /\ \A y \in BagToSet(req') :
              Arrives(y) =>
                IF InRoutingTable(r)
                THEN y.pc = "done" => y.resp.handled
                ELSE /\ y.pc = "done"
                     /\ y.resp = NotHandled
                     /\ y.io = <<>>
                     /\ file' = file
  /\ \A y \in BagToSet(req') :
       (y.pc = "done" /\ y.op # "none") => y.resp.handled

\* C16: the router answers "not handled" exactly for the requests outside
\* the five routes, answers a response for every request of a route, done
\* or refused, and an unrouted request reads and writes nothing.
C16_RouterTotal == [][C16_RouteStep]_vars

\* C16 witness: an unrouted request got "not handled" while an overlay file
\* with a custom server is on disk.
C16_Witness ==
  /\ file.exists
  /\ Len(PersistedCustom) >= 1
  /\ \E x \in InFlight : x.pc = "done" /\ x.resp = NotHandled /\ x.io = <<>>

\* The identifiers of the custom descriptors of a listing, in listing order.
ListedCustomIds(servers) ==
  LET customs == SelectSeq(servers, LAMBDA d : ~d.builtin)
  IN [i \in 1..Len(customs) |-> customs[i].id]

\* C17: the listing puts every built-in before every custom server, the
\* built-ins in registry order and the custom servers in the order of their
\* creation, identifiers made of digits included.  Stated when a Create has
\* answered, on the listing of the overlay it left: the custom servers listed
\* before it, in the same order, then the created one.
C17_ListingOrder ==
  LET now == getAllServers(loadMCPConfig(file))
  IN /\ \A i \in 1..Len(now) : now[i].builtin <=> i <= Len(BuiltinServers)
     /\ \A i \in 1..Len(BuiltinServers) : now[i].id = BuiltinServers[i].id
     /\ \A x \in InFlight :
          (Succeeded(x) /\ x.op = "create" /\ file = saveMCPConfig(Saved(x))) =>
            ListedCustomIds(now)
              = Append(ListedCustomIds(getAllServers(x.config)), x.id)

\* The number of writes among the file accesses of a request.
Writes(io) == Cardinality({i \in 1..Len(io) : io[i] = "write"})

C18_WriteStep ==
  /\ file' # file =>
       \E x \in InFlight, y \in BagToSet(req') :
         x.pc = "loaded" /\ Move(x, y) /\ Succeeded(y)
  /\ \A y \in BagToSet(req') :
       /\ Arrives(y) => (file' = file /\ Writes(y.io) = 0)
       /\ \A x \in InFlight :
            (Move(x, y) /\ x # y) =>
              IF x.pc = "loaded"
              THEN /\ Succeeded(y)
                   /\ file' = saveMCPConfig(Saved(y))
                   /\ Writes(x.io) = 0
                   /\ Writes(y.io) = 1
              ELSE file' = file /\ Writes(y.io) = 0
       /\ (y.pc = "done" /\ ~Succeeded(y)) => Writes(y.io) = 0

\* C18: every successful Toggle, Create and Delete writes the overlay file
\* exactly once, at its save; list, Probe, a rejected Create and a rejected
\* Delete never write it, so a list over no file leaves no file.
C18_WritesOnlyOnSuccess == [][C18_WriteStep]_vars

\* C18 witness: a successful mutation has written the file it left, and a
\* rejected Create or Delete has answered without writing.
C18_Witness ==
  \E x, y \in InFlight :
    /\ Succeeded(x)
    /\ Writes(x.io) = 1
    /\ file = saveMCPConfig(Saved(x))
    /\ y.pc = "done"
    /\ y.op \in {"create", "delete"}
    /\ ~y.resp.success
    /\ Writes(y.io) = 0

\* C19: starting from no overlay file, whatever the interleaving, every
\* built-in identifier and every key of custom has a boolean entry of its
\* own in the enabled map of the persisted overlay.
C19_EnabledCoversAll ==
  file.exists =>
    \A id \in BuiltinIds \cup CustomKeys(file.data.custom) :
      /\ id \in DOMAIN file.data.enabled
      /\ file.data.enabled[id] \in BOOLEAN

\* C19 witness: the persisted overlay holds a custom server and a disabled
\* built-in while two requests that loaded earlier overlays have answered
\* success:true.
C19_Witness ==
  /\ file.exists
  /\ Len(file.data.custom) >= 1
  /\ \E id \in BuiltinIds : ~file.data.enabled[id]
  /\ \E x, y \in InFlight :
       /\ Succeeded(x)
       /\ Succeeded(y)
       /\ x.config = y.config
       /\ x.id # y.id

C20_SaveStep ==
  \A x \in InFlight, y \in BagToSet(req') :
    (x.pc = "loaded" /\ x.op = "create" /\ x # y /\ Move(x, y)) =>
      x.id \notin CustomKeys(PersistedCustom)

\* C20: at the moment a successful Create saves, under any interleaving, its
\* identifier is not a key of the persisted custom mapping, so it never
\* replaces a custom record.
C20_CreateNeverReplaces == [][C20_SaveStep]_vars

C20_LoadedStep ==
  \A x \in InFlight, y \in BagToSet(req') :
    (x.pc = "loaded" /\ x.op = "create" /\ x # y /\ Move(x, y)) =>
      /\ Succeeded(y)
      /\ x.id \notin BuiltinIds
      /\ x.id \notin CustomKeys(x.config.custom)
      /\ loadMCPConfig(file) = x.config => x.id \notin CustomKeys(PersistedCustom)

\* C20 as amended: a Create that answers success:true found its identifier
\* absent from the registry and from the custom mapping of the overlay it
\* loaded; when the persisted overlay is still the one it loaded, the
\* identifier is absent from it at the save as well.
C20_CreateChecksLoaded == [][C20_LoadedStep]_vars

\* C20 witness: two Creates of one identifier loaded the same overlay and
\* both have answered success:true, the second over the record of the first.
C20_Witness ==
  \E x \in InFlight :
    /\ Succeeded(x)
    /\ x.op = "create"
    /\ CopiesIn(x, req) >= 2
    /\ x.id \in CustomKeys(PersistedCustom)
    /\ x.id \notin CustomKeys(x.config.custom)

====
